---- MODULE Spec2Model ----
(***************************************************************************)
(* Aggregation routines of the Gangwon wildfire report (src/src/app.py).   *)
(*                                                                         *)
(* Every routine is a pure function of a table (a pandas DataFrame) and a  *)
(* few scalar arguments.  A table is modelled as                           *)
(*     [columns : set of column names, rows : sequence of rows]            *)
(* with a row a function from the column names to cells.  Text cells are   *)
(* sequences of one-character strings, so that slicing, padding and        *)
(* numeric parsing are computed character by character as pandas does.     *)
(* Each routine has its own specification: the table is built row by row   *)
(* from small value sets, then the routine is called once and its return   *)
(* value (or the exception it raises) is stored in result.                 *)
(***************************************************************************)
EXTENDS Integers, Sequences, FiniteSets, TLC

VARIABLES
    df,      \* the input table handed to the routine
    args,    \* the scalar arguments of the call
    result,  \* what the call returned or raised
    pc,      \* "build" while the table is assembled, "done" after the call;
             \* for the page script, the line a run stands at
    app      \* the page script's session state, its overlay variable and
             \* the overlay element on the page

vars == <<df, args, result, pc, app>>

(***************************************************************************)
(* Bounds of the model.                                                    *)
(***************************************************************************)
MaxRowsHourly == 2
MaxRowsMonth == 3
MaxRowsMob == 2
MaxRowsCas == 2

(***************************************************************************)
(* Cells, text and numbers.                                                *)
(***************************************************************************)
\* a missing text cell (NaN / None) of an object column
NaN == <<"NaN">>

\* the value pd.to_numeric(..., errors="coerce") gives: a number or NaN
NumNaN == [nan |-> TRUE, v |-> 0]
Num(n) == [nan |-> FALSE, v |-> n]

Digits == {"0", "1", "2", "3", "4", "5", "6", "7", "8", "9"}
DigitVal ==
    ("0" :> 0) @@ ("1" :> 1) @@ ("2" :> 2) @@ ("3" :> 3) @@ ("4" :> 4) @@
    ("5" :> 5) @@ ("6" :> 6) @@ ("7" :> 7) @@ ("8" :> 8) @@ ("9" :> 9)

Min(a, b) == IF a < b THEN a ELSE b
Max(a, b) == IF a > b THEN a ELSE b

\* Series.astype(str) on one cell: a missing cell reads "nan"
AsTypeStr(c) == IF c = NaN THEN <<"n", "a", "n">> ELSE c

\* Python slice s[a:b] of a string
Slice(s, a, b) == SubSeq(s, a + 1, Min(b, Len(s)))

\* Series.str.zfill(w): left-pad with "0" up to width w (no sign in the alphabet)
RECURSIVE ZFill(_, _)
ZFill(s, w) == IF Len(s) >= w THEN s ELSE ZFill(<<"0">> \o s, w)

RECURSIVE DecVal(_)
DecVal(s) ==
    IF s = <<>> THEN 0
    ELSE 10 * DecVal(SubSeq(s, 1, Len(s) - 1)) + DigitVal[s[Len(s)]]

\* pd.to_numeric(s, errors="coerce") on a text over digits, letters and ":":
\* a non-empty run of digits is its decimal value, anything else is NaN
ToNumeric(s) ==
    IF s # <<>> /\ \A i \in 1..Len(s) : s[i] \in Digits
    THEN Num(DecVal(s))
    ELSE NumNaN

\* number of rows satisfying a test (groupby(...).size() of one group)
CountRows(rows, Keep(_)) == Cardinality({i \in 1..Len(rows) : Keep(rows[i])})

RECURSIVE SumSeq(_)
SumSeq(ns) == IF ns = <<>> THEN 0 ELSE Head(ns) + SumSeq(Tail(ns))

\* sum of a numeric expression over rows (groupby(...).sum() of one group)
SumRows(rows, Val(_)) == SumSeq([i \in 1..Len(rows) |-> Val(rows[i])])

\* a set of integers as an ascending sequence
RECURSIVE SortInts(_)
SortInts(S) ==
    IF S = {} THEN <<>>
    ELSE LET m == CHOOSE x \in S : \A y \in S : x <= y
         IN  <<m>> \o SortInts(S \ {m})

\* flatten a sequence of sequences
RECURSIVE Concat(_)
Concat(ss) == IF ss = <<>> THEN <<>> ELSE Head(ss) \o Concat(Tail(ss))

\* the elements of a sequence
Range(s) == {s[i] : i \in 1..Len(s)}

\* DataFrame.reindex(index, fill_value=fill) read at one key of the new index
Reindex(f, k, fill) == IF k \in DOMAIN f THEN f[k] ELSE fill

NoResult == [status |-> "none"]
\* the page script is not part of a run of one routine
NoApp == [script |-> "none"]
Raised(exc) == [status |-> exc]

(***************************************************************************)
(* prep_hourly_cause (app.py 297-359)                                      *)
(***************************************************************************)
\* a missing cause cell (NaN / None)
NA == "<NA>"
\* the sentinels "미상" (unknown) and "기타" (other) of app.py 322-328
Misang == "misang"
Gita == "gita"

\* str.strip() on the cause texts of the model
StrStrip ==
    ("cigarette" :> "cigarette") @@ ("lightning" :> "lightning") @@
    (" cigarette " :> "cigarette") @@ (" " :> "") @@ ("" :> "") @@
    ("misang" :> "misang") @@ ("gita" :> "gita")

\* code-point order of the labels, as sorted() sees them: ASCII before Hangul,
\* "기타" (U+AE30) before "미상" (U+BBF8)
LabelRank ==
    ("" :> 0) @@ ("cigarette" :> 1) @@ ("lightning" :> 2) @@
    ("gita" :> 3) @@ ("misang" :> 4)

RECURSIVE SortLabels(_)
SortLabels(S) ==
    IF S = {} THEN <<>>
    ELSE LET m == CHOOSE x \in S : \A y \in S : LabelRank[x] <= LabelRank[y]
         IN  <<m>> \o SortLabels(S \ {m})

\* hour texts: "0930", "09:30", "9", 93000 (an HHMMSS integer), "140500",
\* "250000" (out of range), "xx3000" (unparseable), and a missing cell
HourValues ==
    { <<"0", "9", "3", "0">>, <<"0", "9", ":", "3", "0">>, <<"9">>,
      <<"9", "3", "0", "0", "0">>, <<"1", "4", "0", "5", "0", "0">>,
      <<"2", "5", "0", "0", "0", "0">>, <<"x", "x", "3", "0", "0", "0">>, NaN }
CauseValues == {"cigarette", "lightning", " cigarette ", " ", NA}

HourlyColumnSets ==
    { {"FIRE_OCRN_HR", "IGTN_HTSRC_LCLSF_NM"},
      {"OCRN_HR", "IGTN_HTSRC_LCLSF_NM"},
      {"FIRE_OCRN_HR"} }
HourlyRows(cols) ==
    IF cols = {"FIRE_OCRN_HR", "IGTN_HTSRC_LCLSF_NM"}
    THEN [FIRE_OCRN_HR : HourValues, IGTN_HTSRC_LCLSF_NM : CauseValues]
    ELSE IF cols = {"OCRN_HR", "IGTN_HTSRC_LCLSF_NM"}
    THEN [OCRN_HR : HourValues, IGTN_HTSRC_LCLSF_NM : CauseValues]
    ELSE [FIRE_OCRN_HR : HourValues]

None == [none |-> TRUE, n |-> 0]
Some(n) == [none |-> FALSE, n |-> n]
TopNValues == {None, Some(0), Some(1), Some(2)}

\* app.py 316-317: astype(str).str.zfill(6).str[:2], then to_numeric
HourOf(cell) == ToNumeric(Slice(ZFill(AsTypeStr(cell), 6), 0, 2))

\* app.py 322-323: fillna("미상").astype(str).str.strip().replace({"": "미상"})
CauseOf(cell) ==
    LET stripped == StrStrip[IF cell = NA THEN Misang ELSE cell]
    IN  IF stripped = "" THEN Misang ELSE stripped

\* app.py 316-323: the working frame d after the hour is parsed, rows without a
\* numeric hour are dropped and the cause is cleaned
HourlyFrame(d, cause_col) ==
    LET parsed == [i \in 1..Len(d.rows) |->
                     [hour |-> HourOf(d.rows[i]["FIRE_OCRN_HR"]),
                      cause |-> CauseOf(d.rows[i][cause_col])]]
        kept == SelectSeq(parsed, LAMBDA r : ~r.hour.nan)
    IN  [i \in 1..Len(kept) |-> [hour |-> kept[i].hour.v, cause |-> kept[i].cause]]

\* Series.value_counts(): occurrences of every realized label
ValueCounts(frame) ==
    [c \in {r.cause : r \in Range(frame)} |->
        CountRows(frame, LAMBDA r : r.cause = c)]

\* Series.nlargest(n): the label sets a count ranking may return; the order
\* among equal counts is not fixed by the code
NLargest(vc, n) ==
    {S \in SUBSET DOMAIN vc :
        /\ Cardinality(S) = Min(n, Cardinality(DOMAIN vc))
        /\ \A a \in S : \A b \in (DOMAIN vc) \ S : vc[a] >= vc[b]}

\* the rankings open to a call: app.py 326-327
TopCauses(d, cause_col, top_n) ==
    IF "FIRE_OCRN_HR" \in d.columns /\ cause_col \in d.columns
       /\ ~top_n.none /\ top_n.n > 0
    THEN NLargest(ValueCounts(HourlyFrame(d, cause_col)), top_n.n)
    ELSE {{}}

\* the cause kept whatever top_n is
CauseTopKeepAll(cause, top_n, top_causes) == cause

\* app.py 326-331
CauseTop(cause, top_n, top_causes) ==
    IF ~top_n.none /\ top_n.n > 0
    THEN IF cause \in top_causes THEN cause ELSE Gita
    ELSE cause

\* DataHourly without the reindex: only the hours that occur get a record
DataHourlyNoReindex(frame) ==
    LET hours == SortInts({r.hour : r \in Range(frame)})
    IN  [i \in 1..Len(hours) |->
            [hour |-> hours[i],
             count |-> CountRows(frame, LAMBDA r : r.hour = hours[i])]]

\* app.py 334-342: groupby("hour").size().reindex(range(24), fill_value=0)
DataHourly(frame) ==
    LET size == [h \in {r.hour : r \in Range(frame)} |->
                    CountRows(frame, LAMBDA r : r.hour = h)]
    IN  [i \in 1..24 |-> [hour |-> i - 1, count |-> Reindex(size, i - 1, 0)]]

\* app.py 345-357: groupby(["cause_top","hour"]).size(), reindexed on
\* sorted(causes) x range(24) with fill_value=0
DataCause(bucketed) ==
    LET size == [k \in {<<r.cause_top, r.hour>> : r \in Range(bucketed)} |->
                    CountRows(bucketed,
                              LAMBDA r : r.cause_top = k[1] /\ r.hour = k[2])]
        all_causes == SortLabels({k[1] : k \in DOMAIN size})
    IN  Concat([j \in 1..Len(all_causes) |->
                  [i \in 1..24 |->
                      [cause |-> all_causes[j], hour |-> i - 1,
                       count |-> Reindex(size, <<all_causes[j], i - 1>>, 0)]]])

\* the frame d with its cause_top column (app.py 326-331)
Bucketed(d, cause_col, top_n, top_causes) ==
    LET frame == HourlyFrame(d, cause_col)
    IN  [i \in 1..Len(frame) |->
            [hour |-> frame[i].hour, cause |-> frame[i].cause,
             cause_top |-> CauseTop(frame[i].cause, top_n, top_causes)]]

prep_hourly_cause(d, hour_col, cause_col, top_n, top_causes) ==
    IF hour_col \notin d.columns \/ cause_col \notin d.columns
    THEN Raised("KeyError")                       \* app.py 310-311
    ELSE IF "FIRE_OCRN_HR" \notin d.columns
    THEN Raised("KeyError")                       \* app.py 316 reads d['FIRE_OCRN_HR']
    ELSE [status |-> "ok",
          data_hourly |-> DataHourly(HourlyFrame(d, cause_col)),
          data_cause |-> DataCause(Bucketed(d, cause_col, top_n, top_causes))]

InitHourly ==
    /\ df \in {[columns |-> cols, rows |-> <<>>] : cols \in HourlyColumnSets}
    /\ args = [fn |-> "prep_hourly_cause"]
    /\ result = NoResult
    /\ pc = "build"
    /\ app = NoApp

AddRowHourly ==
    /\ pc = "build"
    /\ args.fn = "prep_hourly_cause"
    /\ Len(df.rows) < MaxRowsHourly
    /\ \E row \in HourlyRows(df.columns) :
          df' = [df EXCEPT !.rows = Append(@, row)]
    /\ UNCHANGED <<args, result, pc, app>>

CallHourly ==
    /\ pc = "build"
    /\ args.fn = "prep_hourly_cause"
    /\ \E hour_col \in {"FIRE_OCRN_HR", "OCRN_HR"}, top_n \in TopNValues :
         \E top_causes \in TopCauses(df, "IGTN_HTSRC_LCLSF_NM", top_n) :
            /\ args' = [fn |-> "prep_hourly_cause", hour_col |-> hour_col,
                        cause_col |-> "IGTN_HTSRC_LCLSF_NM", top_n |-> top_n,
                        top_causes |-> top_causes]
            /\ result' = prep_hourly_cause(df, hour_col, "IGTN_HTSRC_LCLSF_NM",
                                           top_n, top_causes)
    /\ pc' = "done"
    /\ UNCHANGED <<df, app>>

NextHourly == AddRowHourly \/ CallHourly

SpecHourly == InitHourly /\ [][NextHourly]_vars

(***************************************************************************)
(* Claims about prep_hourly_cause, checked under SpecHourly.               *)
(***************************************************************************)
HourlyReturned == pc = "done" /\ result.status = "ok"
HourlyDefaultColumns == {"FIRE_OCRN_HR", "IGTN_HTSRC_LCLSF_NM"} \subseteq df.columns

\* C1: whenever the table has the required columns (also with no rows, and with
\* unparseable or out-of-range hours) the call returns, and data_hourly has
\* exactly 24 records whose hour keys are 0,1,...,23 in this order and whose
\* counts are integers >= 0.
C1_HourlyCountShape ==
    pc = "done" =>
       /\ (HourlyDefaultColumns /\ args.hour_col = "FIRE_OCRN_HR")
             => result.status = "ok"
       /\ result.status = "ok" =>
             /\ Len(result.data_hourly) = 24
             /\ \A i \in 1..24 :
                   /\ result.data_hourly[i].hour = i - 1
                   /\ result.data_hourly[i].count \in Nat

\* a returned call on a table holding an out-of-range and an unparseable hour
C1_Witness ==
    /\ HourlyReturned
    /\ \E i \in 1..Len(df.rows) :
          ~HourOf(df.rows[i].FIRE_OCRN_HR).nan /\ HourOf(df.rows[i].FIRE_OCRN_HR).v > 23
    /\ \E i \in 1..Len(df.rows) : HourOf(df.rows[i].FIRE_OCRN_HR).nan

\* the rows of the working frame with their bucket, for the call made
HourlyBucketed == Bucketed(df, args.cause_col, args.top_n, args.top_causes)
HourlyBuckets == {r.cause_top : r \in Range(HourlyBucketed)}
CauseCountSum(b) ==
    SumRows(result.data_cause, LAMBDA r : IF r.cause = b THEN r.count ELSE 0)

\* C2: data_cause has (number of distinct cause buckets) x 24 records, one per
\* (bucket, hour in 0..23) pair, and for every bucket the sum of its 24 counts
\* equals the number of input rows assigned to that bucket.
C2_CauseHourMatrixSums ==
    HourlyReturned =>
       /\ Len(result.data_cause) = 24 * Cardinality(HourlyBuckets)
       /\ \A b \in HourlyBuckets : \A h \in 0..23 :
             Cardinality({i \in 1..Len(result.data_cause) :
                             /\ result.data_cause[i].cause = b
                             /\ result.data_cause[i].hour = h}) = 1
       /\ \A b \in HourlyBuckets :
             CauseCountSum(b) = CountRows(HourlyBucketed, LAMBDA r : r.cause_top = b)

\* the table of the scenario: two rows with hour "0930", causes cigarette and
\* lightning
ScenarioHourlyRows ==
    << [FIRE_OCRN_HR |-> <<"0", "9", "3", "0">>, IGTN_HTSRC_LCLSF_NM |-> "cigarette"],
       [FIRE_OCRN_HR |-> <<"0", "9", "3", "0">>, IGTN_HTSRC_LCLSF_NM |-> "lightning"] >>

\* C3: on the scenario table with top_n = 1 the buckets are one kept cause and
\* the catch-all, data_cause has 48 records, the count is 1 at hour 9 of both
\* buckets and 0 everywhere else; and the hour texts "9", "0930" and "09:30"
\* are all read as hour 9.
C3_LeadingDigitsHour ==
    /\ (/\ pc = "done"
        /\ df.rows = ScenarioHourlyRows
        /\ args.hour_col = "FIRE_OCRN_HR"
        /\ args.top_n = Some(1))
          => /\ result.status = "ok"
             /\ Len(result.data_cause) = 48
             /\ \E kept \in {"cigarette", "lightning"} :
                   {result.data_cause[i].cause : i \in 1..48} = {kept, Gita}
             /\ \A i \in 1..48 :
                   result.data_cause[i].count =
                      IF result.data_cause[i].hour = 9 THEN 1 ELSE 0
    /\ HourlyReturned =>
          \A i \in 1..Len(df.rows) :
             df.rows[i].FIRE_OCRN_HR
                \in {<<"9">>, <<"0", "9", "3", "0">>, <<"0", "9", ":", "3", "0">>}
             => result.data_hourly[10].count >= 1

\* the rows that reach the bucketing step: those with a numeric hour
HourlyKeptRows == {i \in 1..Len(df.rows) : ~HourOf(df.rows[i].FIRE_OCRN_HR).nan}
\* the label of a row before bucketing: the unknown sentinel for a missing,
\* blank or whitespace-only cause, else the trimmed cause
HourlyLabel(i) ==
    LET cell == df.rows[i].IGTN_HTSRC_LCLSF_NM
    IN  IF cell \in {NA, "", " "} THEN Misang ELSE StrStrip[cell]
HourlyLabels == {HourlyLabel(i) : i \in HourlyKeptRows}
HourlyLabelCount(l) == Cardinality({i \in HourlyKeptRows : HourlyLabel(i) = l})
HourlyResultCauses == {result.data_cause[i].cause : i \in 1..Len(result.data_cause)}

C16_HourColumnHonoured ==
    (pc = "done" /\ {args.hour_col, args.cause_col} \subseteq df.columns) =>
       /\ result.status = "ok"
       /\ \A h \in 0..23 :
             result.data_hourly[h + 1].count =
                Cardinality({i \in 1..Len(df.rows) :
                                HourOf(df.rows[i][args.hour_col]) = Num(h)})

(***************************************************************************)
(* prep_month_season_chart (app.py 361-386)                                *)
(***************************************************************************)
\* date texts: three well-formed dates, month "00", month "13", a bare year,
\* a text with no numeric year, and a missing cell
MonthDateValues ==
    { <<"2", "0", "2", "2", "0", "3", "0", "1">>,
      <<"2", "0", "2", "1", "1", "2", "3", "1">>,
      <<"2", "0", "2", "2", "0", "0", "0", "1">>,
      <<"2", "0", "2", "1", "1", "3", "0", "1">>,
      <<"2", "0", "2", "2">>,
      <<"a", "b", "c", "d", "0", "1", "0", "1">>,
      NaN }

\* app.py 364-368: year and month of every row, rows without both dropped
MonthFrame(d) ==
    LET parsed == [i \in 1..Len(d.rows) |->
                     [year |-> ToNumeric(Slice(AsTypeStr(d.rows[i].OCRN_YMD), 0, 4)),
                      month |-> ToNumeric(Slice(AsTypeStr(d.rows[i].OCRN_YMD), 4, 6))]]
        kept == SelectSeq(parsed, LAMBDA r : ~r.year.nan /\ ~r.month.nan)
    IN  [i \in 1..Len(kept) |-> [year |-> kept[i].year.v, month |-> kept[i].month.v]]

SetMin(S) == CHOOSE x \in S : \A y \in S : x <= y
SetMax(S) == CHOOSE x \in S : \A y \in S : x >= y

\* app.py 373: the ranges the year slider can hand back
SliderRanges(d) ==
    LET years == {r.year : r \in Range(MonthFrame(d))}
    IN  IF years = {} THEN {<<0, 0>>}
        ELSE {<<y1, y2>> \in (SetMin(years)..SetMax(years)) \X (SetMin(years)..SetMax(years)) :
                 y1 <= y2}

\* app.py 377-385: value_counts().reindex(range(1,13), fill_value=0)
MonthCounts(frame) ==
    LET vc == [m \in {r.month : r \in Range(frame)} |->
                  CountRows(frame, LAMBDA r : r.month = m)]
    IN  [i \in 1..12 |-> [month |-> i, count |-> Reindex(vc, i, 0)]]

prep_month_season_chart(d, slider) ==
    IF "OCRN_YMD" \notin d.columns
    THEN Raised("KeyError")                        \* app.py 364
    ELSE IF MonthFrame(d) = <<>>
    THEN Raised("ValueError")                      \* app.py 371: int(nan)
    ELSE [status |-> "ok",
          months_df |-> MonthCounts(SelectSeq(MonthFrame(d),
                           LAMBDA r : r.year >= slider[1] /\ r.year <= slider[2]))]

InitMonth ==
    /\ df = [columns |-> {"OCRN_YMD"}, rows |-> <<>>]
    /\ args = [fn |-> "prep_month_season_chart"]
    /\ result = NoResult
    /\ pc = "build"
    /\ app = NoApp

AddRowMonth ==
    /\ pc = "build"
    /\ args.fn = "prep_month_season_chart"
    /\ Len(df.rows) < MaxRowsMonth
    /\ \E row \in [OCRN_YMD : MonthDateValues] :
          df' = [df EXCEPT !.rows = Append(@, row)]
    /\ UNCHANGED <<args, result, pc, app>>

CallMonth ==
    /\ pc = "build"
    /\ args.fn = "prep_month_season_chart"
    /\ \E slider \in SliderRanges(df) :
          /\ args' = [fn |-> "prep_month_season_chart", slider |-> slider]
          /\ result' = prep_month_season_chart(df, slider)
    /\ pc' = "done"
    /\ UNCHANGED <<df, app>>

NextMonth == AddRowMonth \/ CallMonth

SpecMonth == InitMonth /\ [][NextMonth]_vars

(***************************************************************************)
(* Claims about prep_month_season_chart, checked under SpecMonth.          *)
(***************************************************************************)
MonthSliderFull ==
    LET years == {r.year : r \in Range(MonthFrame(df))}
    IN  years = {} \/ args.slider = <<SetMin(years), SetMax(years)>>

\* C4: with the slider left at the full range the call returns exactly 12
\* records with months 1..12 in ascending order, and the 12 counts add up to
\* the number of input rows whose date gives a numeric year and month.
C4_MonthlyCountTotal ==
    (pc = "done" /\ MonthSliderFull) =>
       /\ result.status = "ok"
       /\ Len(result.months_df) = 12
       /\ \A i \in 1..12 : result.months_df[i].month = i
       /\ SumRows(result.months_df, LAMBDA r : r.count) = Len(MonthFrame(df))

(***************************************************************************)
(* prep_mobilization_records (app.py 76-155)                               *)
(***************************************************************************)
\* app.py 88-94: the default line_cols
DefaultLineCols ==
    <<"MBLZ_POLICEO_CNT", "MBLZ_SOLD_CNT", "MBLZ_GNRL_OCPT_NOPE",
      "ETC_MBLZ_NOPE", "MBLZ_FFPWR_CNT">>

\* the spellings of the column names a table of the model may use
ColumnSpelling ==
    [upper |->
        [ocrn_ymd |-> "OCRN_YMD", whol_mnpw_cnt |-> "WHOL_MNPW_CNT",
         mblz_policeo_cnt |-> "MBLZ_POLICEO_CNT", mblz_sold_cnt |-> "MBLZ_SOLD_CNT",
         mblz_gnrl_ocpt_nope |-> "MBLZ_GNRL_OCPT_NOPE",
         etc_mblz_nope |-> "ETC_MBLZ_NOPE", mblz_ffpwr_cnt |-> "MBLZ_FFPWR_CNT"],
     lower |->
        [ocrn_ymd |-> "ocrn_ymd", whol_mnpw_cnt |-> "whol_mnpw_cnt",
         mblz_policeo_cnt |-> "mblz_policeo_cnt", mblz_sold_cnt |-> "mblz_sold_cnt",
         mblz_gnrl_ocpt_nope |-> "mblz_gnrl_ocpt_nope",
         etc_mblz_nope |-> "etc_mblz_nope", mblz_ffpwr_cnt |-> "mblz_ffpwr_cnt"],
     mixed |->
        [ocrn_ymd |-> "Ocrn_Ymd", whol_mnpw_cnt |-> "Whol_Mnpw_Cnt",
         mblz_policeo_cnt |-> "Mblz_Policeo_Cnt", mblz_sold_cnt |-> "Mblz_Sold_Cnt",
         mblz_gnrl_ocpt_nope |-> "Mblz_Gnrl_Ocpt_Nope",
         etc_mblz_nope |-> "Etc_Mblz_Nope", mblz_ffpwr_cnt |-> "Mblz_Ffpwr_Cnt"]]
Spellings == {"upper", "lower", "mixed"}
RoleNames ==
    {"mblz_policeo_cnt", "mblz_sold_cnt", "mblz_gnrl_ocpt_nope",
     "etc_mblz_nope", "mblz_ffpwr_cnt"}
MobNames == {"ocrn_ymd", "whol_mnpw_cnt"} \cup RoleNames

\* str.lower() without effect: the name is kept as spelled
LowerKeep(c) == c

\* str.lower() on every spelling of the model
LowerTable ==
    [c \in {ColumnSpelling[sp][n] : sp \in Spellings, n \in MobNames} |->
        CHOOSE n \in MobNames : \E sp \in Spellings : ColumnSpelling[sp][n] = c]

\* str.lower() on a column name (app.py 98-101)
Lower(c) == IF c \in DOMAIN LowerTable THEN LowerTable[c] ELSE c

\* date texts: March and July 2020, January 2022, month "13", and a missing cell
MobDateValues ==
    { <<"2", "0", "2", "0", "0", "3", "1", "5">>,
      <<"2", "0", "2", "0", "0", "7", "2", "0">>,
      <<"2", "0", "2", "2", "0", "1", "1", "0">>,
      <<"2", "0", "2", "0", "1", "3", "0", "1">> }
MobTotalValues == {NumNaN, Num(4)}
\* the values a row gives its role columns: all missing, or 1..5 by role
RoleNumber ==
    [mblz_policeo_cnt |-> 1, mblz_sold_cnt |-> 2, mblz_gnrl_ocpt_nope |-> 3,
     etc_mblz_nope |-> 4, mblz_ffpwr_cnt |-> 5]
MobRoleValues == {"missing", "numbered"}

\* every subset of the role columns next to the required columns, and two
\* tables without a required column
MobColumnSets ==
    {{ColumnSpelling["upper"][n] : n \in {"ocrn_ymd", "whol_mnpw_cnt"} \cup roles} :
        roles \in SUBSET RoleNames}
    \cup {{"OCRN_YMD"}, {"WHOL_MNPW_CNT"}}

\* the same tables in every spelling, for three of the role subsets
MobSpelledColumnSets ==
    {{ColumnSpelling[sp][n] : n \in {"ocrn_ymd", "whol_mnpw_cnt"} \cup roles} :
        sp \in Spellings,
        roles \in {{}, RoleNames \ {"mblz_sold_cnt"}, RoleNames}}

MobRows(cols) ==
    {[c \in cols |->
        IF LowerTable[c] = "ocrn_ymd" THEN date
        ELSE IF LowerTable[c] = "whol_mnpw_cnt" THEN total
        ELSE IF role = "missing" THEN NumNaN ELSE Num(RoleNumber[LowerTable[c]])] :
     date \in MobDateValues, total \in MobTotalValues, role \in MobRoleValues}

DaysInMonth(y, m) ==
    IF m \in {4, 6, 9, 11} THEN 30
    ELSE IF m = 2
    THEN (IF (y % 4 = 0 /\ y % 100 # 0) \/ y % 400 = 0 THEN 29 ELSE 28)
    ELSE 31

NaT == [nat |-> TRUE, year |-> 0, month |-> 0]

\* app.py 110: pd.to_datetime(text, format="%Y%m%d", errors="coerce") on the
\* texts of the model (eight characters, or "nan")
ParseYmd(s) ==
    IF Len(s) = 8 /\ (\A i \in 1..8 : s[i] \in Digits)
    THEN LET y == DecVal(SubSeq(s, 1, 4))
             m == DecVal(SubSeq(s, 5, 6))
             dd == DecVal(SubSeq(s, 7, 8))
         IN  IF y >= 1 /\ m \in 1..12 /\ dd >= 1 /\ dd <= DaysInMonth(y, m)
             THEN [nat |-> FALSE, year |-> y, month |-> m]
             ELSE NaT
    ELSE NaT

\* app.py 97-98: the copy d with lower-case column names
LowerColumns(d) ==
    [columns |-> {Lower(c) : c \in d.columns},
     rows |-> [i \in 1..Len(d.rows) |->
                 [cl \in {Lower(c) : c \in d.columns} |->
                     d.rows[i][CHOOSE c \in d.columns : Lower(c) = cl]]]]

\* dropna on the parsed date alone: a row with a missing total stays
MobFrameKeepMissingTotal(d, date_col, total_col) ==
    LET parsed == [i \in 1..Len(d.rows) |->
                     [date |-> ParseYmd(AsTypeStr(d.rows[i][date_col])),
                      row |-> d.rows[i]]]
        kept == SelectSeq(parsed, LAMBDA r : ~r.date.nat)
    IN  [i \in 1..Len(kept) |->
            [year |-> kept[i].date.year, month |-> kept[i].date.month,
             row |-> kept[i].row]]

\* app.py 110-115: parse the date, drop rows without date or total, add year
\* and month
MobFrame(d, date_col, total_col) ==
    LET parsed == [i \in 1..Len(d.rows) |->
                     [date |-> ParseYmd(AsTypeStr(d.rows[i][date_col])),
                      row |-> d.rows[i]]]
        kept == SelectSeq(parsed, LAMBDA r : ~r.date.nat /\ ~r.row[total_col].nan)
    IN  [i \in 1..Len(kept) |->
            [year |-> kept[i].date.year, month |-> kept[i].date.month,
             row |-> kept[i].row]]

\* groupby(["year","month"])[cols].sum(): NaN cells add nothing
MobGroupSum(frame, cols) ==
    [k \in {<<r.year, r.month>> : r \in Range(frame)} |->
        [c \in cols |->
            SumRows(frame, LAMBDA r :
                IF r.year = k[1] /\ r.month = k[2] /\ ~r.row[c].nan
                THEN r.row[c].v ELSE 0)]]

\* every year from the first to the last one that occurs
MobYearsFullRange(merged) ==
    IF DOMAIN merged = {} THEN <<>>
    ELSE SortInts(SetMin({k[1] : k \in DOMAIN merged}) ..
                  SetMax({k[1] : k \in DOMAIN merged}))

\* app.py 136: years = sorted(merged["year"].unique().tolist())
MobYears(merged) == SortInts({k[1] : k \in DOMAIN merged})

\* no column is added
MobSynthesizeNone(line_cols_l, merged_columns) == {}

\* app.py 146-147: the line columns created with value 0
MobSynthesized(line_cols_l, merged_columns) ==
    {c \in Range(line_cols_l) : c \notin merged_columns}

prep_mobilization_records(df0, date_col0, total_col0, line_cols) ==
    LET d == LowerColumns(df0)
        date_col == Lower(date_col0)
        total_col == Lower(total_col0)
        line_cols_l == [i \in 1..Len(line_cols) |-> Lower(line_cols[i])]
    IN  IF ~({date_col, total_col} \subseteq d.columns)
        THEN Raised("KeyError")                     \* app.py 104-107
        ELSE
        LET frame == MobFrame(d, date_col, total_col)
            present_line_cols == {c \in Range(line_cols_l) : c \in d.columns}
            \* app.py 121-133
            merged == MobGroupSum(frame, {total_col} \cup present_line_cols)
            merged_columns == {"year", "month", total_col} \cup present_line_cols
            \* app.py 136-143
            years == MobYears(merged)
            full_idx == Concat([j \in 1..Len(years) |->
                                  [m \in 1..12 |-> <<years[j], m>>]])
            filled(k, c) == IF k \in DOMAIN merged THEN merged[k][c] ELSE 0
            \* app.py 146-149
            synthesized == MobSynthesized(line_cols_l, merged_columns)
            final_columns ==
                ((merged_columns \cup synthesized) \ {total_col}) \cup {"whol_mnpw_cnt"}
            out_cols == {"year", "month", "whol_mnpw_cnt"} \cup Range(line_cols_l)
            value(k, c) ==
                IF c = "year" THEN k[1]
                ELSE IF c = "month" THEN k[2]
                ELSE IF c = "whol_mnpw_cnt" THEN filled(k, total_col)
                ELSE IF c \in synthesized THEN 0
                ELSE filled(k, c)
        IN  IF ~(out_cols \subseteq final_columns)
            THEN Raised("KeyError")                 \* app.py 155: merged[out_cols]
            ELSE [status |-> "ok",
                  records |-> [i \in 1..Len(full_idx) |->
                                 [c \in out_cols |-> value(full_idx[i], c)]]]

InitMob ==
    /\ df \in {[columns |-> cols, rows |-> <<>>] : cols \in MobColumnSets}
    /\ args = [fn |-> "prep_mobilization_records"]
    /\ result = NoResult
    /\ pc = "build"
    /\ app = NoApp

AddRowMob ==
    /\ pc = "build"
    /\ args.fn = "prep_mobilization_records"
    /\ Len(df.rows) < MaxRowsMob
    /\ \E row \in MobRows(df.columns) :
          df' = [df EXCEPT !.rows = Append(@, row)]
    /\ UNCHANGED <<args, result, pc, app>>

CallMob ==
    /\ pc = "build"
    /\ args.fn = "prep_mobilization_records"
    /\ args' = [fn |-> "prep_mobilization_records", date_col |-> "OCRN_YMD",
                total_col |-> "WHOL_MNPW_CNT", line_cols |-> DefaultLineCols]
    /\ result' = prep_mobilization_records(df, "OCRN_YMD", "WHOL_MNPW_CNT",
                                           DefaultLineCols)
    /\ pc' = "done"
    /\ UNCHANGED <<df, app>>

NextMob == AddRowMob \/ CallMob

SpecMob == InitMob /\ [][NextMob]_vars

\* the same call on tables whose columns are spelled in upper, lower or mixed case
InitMobSpelling ==
    /\ df \in {[columns |-> cols, rows |-> <<>>] : cols \in MobSpelledColumnSets}
    /\ args = [fn |-> "prep_mobilization_records"]
    /\ result = NoResult
    /\ pc = "build"
    /\ app = NoApp

SpecMobSpelling == InitMobSpelling /\ [][NextMob]_vars

(***************************************************************************)
(* Claims about prep_mobilization_records, checked under SpecMob (C8 under *)
(* SpecMobSpelling).                                                       *)
(***************************************************************************)
MobReturned == pc = "done" /\ result.status = "ok"

\* a sequence with every element evaluated
Evaluated(s) == s \o <<>>

\* the cell of a row under the column that spells the lower-case name n
MobCell(row, n) == row[CHOOSE c \in DOMAIN row : LowerTable[c] = n]
MobHas(n) == \E c \in df.columns : LowerTable[c] = n
MobRequiredPresent == MobHas("ocrn_ymd") /\ MobHas("whol_mnpw_cnt")

\* per input row: whether a record may draw on it (the date reads as YYYYMMDD
\* and the primary total is not missing), and its year and month
MobRowInfo ==
    Evaluated([i \in 1..Len(df.rows) |->
        LET date == ParseYmd(AsTypeStr(MobCell(df.rows[i], "ocrn_ymd")))
        IN  [retained |-> ~date.nat /\ ~MobCell(df.rows[i], "whol_mnpw_cnt").nan,
             year |-> date.year, month |-> date.month]])
MobRetained(i) == MobRowInfo[i].retained
MobYearOf(i) == MobRowInfo[i].year
MobMonthOf(i) == MobRowInfo[i].month
MobYearsOf(info) == {info[j].year : j \in {k \in 1..Len(info) : info[k].retained}}
MobPairsOf(info) ==
    {<<info[j].year, info[j].month>> : j \in {k \in 1..Len(info) : info[k].retained}}
MobRetainedYears == MobYearsOf(MobRowInfo)
MobRetainedPairs == MobPairsOf(MobRowInfo)
\* the retained rows of one (year, month)
MobRowsOf(info, y, m) ==
    {j \in 1..Len(info) : info[j].retained /\ info[j].year = y /\ info[j].month = m}

MobMetricKeys == {"whol_mnpw_cnt"} \cup RoleNames
MobKeyPairs(years) ==
    Concat([j \in 1..Len(years) |-> [m \in 1..12 |-> <<years[j], m>>]])
MobResultPairs ==
    [i \in 1..Len(result.records) |->
        <<result.records[i]["year"], result.records[i]["month"]>>]
MobEmptyMonthsZero ==
    LET info == MobRowInfo
    IN  \A i \in 1..Len(result.records) :
           LET rec == result.records[i]
           IN  MobRowsOf(info, rec["year"], rec["month"]) = {}
                  => \A c \in MobMetricKeys : rec[c] = 0

\* C5 as stated: one record per (year, month) for every year of the range from
\* the first to the last observed year and every month 1..12, in (year, month)
\* order; a year of the range without source rows appears with all metrics 0.
C5_FullYearRangeFilled ==
    MobReturned =>
       /\ MobResultPairs =
             MobKeyPairs(IF MobRetainedYears = {} THEN <<>>
                         ELSE SortInts(SetMin(MobRetainedYears)..SetMax(MobRetainedYears)))
       /\ MobEmptyMonthsZero

\* C5 amended: one record per (year, month) for every year that has at least
\* one retained row and every month 1..12, in (year, month) order; a month
\* without rows has every metric 0, and a year without retained rows has no
\* record even when it lies between two years that have rows.
C5_PresentYearsFilled ==
    MobReturned =>
       /\ MobResultPairs = MobKeyPairs(SortInts(MobRetainedYears))
       /\ MobEmptyMonthsZero

\* rows in 2020 and 2022 only: 2021 lies in the range and has no row
C5_Witness ==
    /\ MobReturned
    /\ MobRetainedYears = {2020, 2022}
    /\ Len(result.records) = 24

\* C6: with the required columns present the call returns whatever subset of
\* the five role columns the table lacks; every record carries year, month,
\* whol_mnpw_cnt and the five role keys, and the value under an absent role
\* column is 0 in every record.  With rows only in March and July 2020 and no
\* mblz_sold_cnt column: 12 records, primary total non-zero in months 3 and 7
\* only.
C6_AbsentRoleColumnsZero ==
    (pc = "done" /\ MobRequiredPresent) =>
       LET absent == {c \in RoleNames : ~MobHas(c)}
           keys == {"year", "month"} \cup MobMetricKeys
       IN
       /\ result.status = "ok"
       /\ \A i \in 1..Len(result.records) :
             /\ DOMAIN result.records[i] = keys
             /\ \A c \in absent : result.records[i][c] = 0
       /\ (MobRetainedPairs = {<<2020, 3>>, <<2020, 7>>} /\ "mblz_sold_cnt" \in absent)
          => /\ Len(result.records) = 12
             /\ \A i \in 1..12 :
                   /\ result.records[i]["year"] = 2020
                   /\ result.records[i]["month"] = i
                   /\ result.records[i]["mblz_sold_cnt"] = 0
                   /\ (result.records[i]["whol_mnpw_cnt"] # 0) <=> (i \in {3, 7})

\* the scenario: rows in months 3 and 7 of 2020, mblz_sold_cnt absent, other
\* role columns present
C6_Witness ==
    /\ MobReturned
    /\ ~MobHas("mblz_sold_cnt") /\ MobHas("mblz_policeo_cnt")
    /\ MobRetainedPairs = {<<2020, 3>>, <<2020, 7>>}
    /\ Len(result.records) = 12

\* the value a cell adds to a sum: a missing cell adds 0
MobCellValue(cell) == IF cell.nan THEN 0 ELSE cell.v

\* C7: in every record, the primary total and every present role column hold
\* the sum of that column over exactly the input rows whose date reads as
\* YYYYMMDD to the record's year and month and whose primary total is not
\* missing, a missing role cell adding 0; rows with an unreadable date or a
\* missing total add to no record.
C7_SumsOverRetainedRows ==
    MobReturned =>
       LET info == MobRowInfo
           present == {n \in MobMetricKeys : MobHas(n)}
           cells == Evaluated([j \in 1..Len(df.rows) |->
                       [n \in present |-> MobCellValue(MobCell(df.rows[j], n))]])
       IN  \A i \in 1..Len(result.records) :
              LET rec == result.records[i]
                  rowsOf == MobRowsOf(info, rec["year"], rec["month"])
              IN  \A n \in present :
                     rec[n] = SumSeq([j \in 1..Len(df.rows) |->
                                        IF j \in rowsOf THEN cells[j][n] ELSE 0])

\* two retained rows in one month, or a retained row next to a dropped one that
\* carries role values
C7_Witness ==
    /\ MobReturned
    /\ MobHas("mblz_ffpwr_cnt")
    /\ Len(df.rows) = 2
    /\ \/ /\ MobRetained(1) /\ MobRetained(2)
          /\ MobYearOf(1) = MobYearOf(2) /\ MobMonthOf(1) = MobMonthOf(2)
          /\ \E i \in 1..Len(result.records) : result.records[i]["whol_mnpw_cnt"] = 8
       \/ /\ MobRetained(1) /\ ~MobRetained(2)
          /\ ~MobCell(df.rows[2], "mblz_ffpwr_cnt").nan

\* the table with its columns renamed to another spelling
Respelled(d, sp) ==
    [columns |-> {ColumnSpelling[sp][LowerTable[c]] : c \in d.columns},
     rows |-> [i \in 1..Len(d.rows) |->
                 [c2 \in {ColumnSpelling[sp][LowerTable[c]] : c \in d.columns} |->
                     MobCell(d.rows[i], LowerTable[c2])]]]

\* C8: renaming the date, total and role columns to any upper/lower-case
\* spelling of the same names leaves the returned records unchanged, and the
\* keys of the records are lower case.
C8_ColumnCaseInsensitive ==
    (pc = "done" /\ MobRequiredPresent) =>
       /\ result.status = "ok"
       /\ \A sp \in Spellings :
             prep_mobilization_records(Respelled(df, sp), args.date_col,
                                       args.total_col, args.line_cols) = result
       /\ \A i \in 1..Len(result.records) :
             DOMAIN result.records[i] \subseteq {"year", "month"} \cup MobNames

\* a call on a table spelled neither as the defaults nor in lower case
C8_Witness ==
    /\ MobReturned
    /\ "Ocrn_Ymd" \in df.columns /\ "Mblz_Ffpwr_Cnt" \in df.columns
    /\ \E i \in 1..Len(result.records) : result.records[i]["mblz_ffpwr_cnt"] = 5

(***************************************************************************)
(* prep_casualty_stack_area (app.py 19-74)                                 *)
(***************************************************************************)
\* a cell of a count column: a number, a missing value, or a text
NumCell(n) == [kind |-> "num", v |-> n, s |-> <<>>]
NaNCell == [kind |-> "nan", v |-> 0, s |-> <<>>]
TextCell(t) == [kind |-> "text", v |-> 0, s |-> t]

\* date texts: two ordinary dates, "0201" and "201" (two texts that read as the
\* same number), and a missing cell
CasDateValues ==
    { <<"2", "0", "1", "8", "0", "1", "1", "5">>,
      <<"2", "0", "1", "9", "0", "3", "0", "1">>,
      <<"0", "2", "0", "1">>,
      <<"2", "0", "1">>,
      NaN }
CasDeathValues == {NumCell(2), NumCell(-5), TextCell(<<"x">>)}
CasInjuryValues == {NumCell(17), NumCell(-3), NaNCell}

CasColumnSets ==
    { {"OCRN_YMD", "DCSD_CNT", "INJPSN_CNT"},
      {"ocrn_ymd", "dcsd_cnt", "injpsn_cnt"},
      {"OCRN_YMD", "DCSD_CNT"} }
CasRows(cols) ==
    IF cols = {"OCRN_YMD", "DCSD_CNT", "INJPSN_CNT"}
    THEN [OCRN_YMD : CasDateValues, DCSD_CNT : CasDeathValues,
          INJPSN_CNT : CasInjuryValues]
    ELSE IF cols = {"ocrn_ymd", "dcsd_cnt", "injpsn_cnt"}
    THEN [ocrn_ymd : CasDateValues, dcsd_cnt : CasDeathValues,
          injpsn_cnt : CasInjuryValues]
    ELSE [OCRN_YMD : CasDateValues, DCSD_CNT : CasDeathValues]

\* app.py 47-48: pd.to_numeric(cell, errors="coerce"), then fillna(0)
CellToNumeric(cell) ==
    IF cell.kind = "num" THEN Num(cell.v)
    ELSE IF cell.kind = "text" THEN ToNumeric(cell.s)
    ELSE NumNaN
FillNa0(x) == IF x.nan THEN 0 ELSE x.v

\* the injuries alone, without the deaths
CasualtiesInjuriesOnly(death, inj) == inj

\* app.py 51: casualties = deaths + injuries of a row
Casualties(death, inj) == death + inj

\* the difference left unclamped
InjuriesNoClip(casualties, deaths) == casualties - deaths

\* app.py 59: (casualties - deaths).clip(lower=0)
Injuries(casualties, deaths) == Max(0, casualties - deaths)

\* app.py 44-52: the frame d with year (the first four characters of the date),
\* deaths and casualties per row
CasFrame(d, ymd_col, death_col, inj_col) ==
    [i \in 1..Len(d.rows) |->
        LET death == FillNa0(CellToNumeric(d.rows[i][death_col]))
            inj == FillNa0(CellToNumeric(d.rows[i][inj_col]))
        IN  [year |-> Slice(AsTypeStr(d.rows[i][ymd_col]), 0, 4),
             deaths |-> death,
             casualties |-> Casualties(death, inj)]]

\* app.py 55-59: one row per year text with summed deaths and derived injuries
CasMerged(frame) ==
    [y \in {r.year : r \in Range(frame)} |->
        LET cas == SumRows(frame, LAMBDA r : IF r.year = y THEN r.casualties ELSE 0)
            dea == SumRows(frame, LAMBDA r : IF r.year = y THEN r.deaths ELSE 0)
        IN  [deaths |-> dea, injuries |-> Injuries(cas, dea)]]

\* app.py 64-65: the year texts that read as a number
CasNumericYears(merged) == {y \in DOMAIN merged : ~ToNumeric(y).nan}

\* app.py 69: the orders sort_values("year") may leave the rows in; rows with
\* equal year come in either order
CasOrders(d) ==
    IF ~({"OCRN_YMD", "DCSD_CNT", "INJPSN_CNT"} \subseteq d.columns)
    THEN {<<>>}
    ELSE LET ys == CasNumericYears(CasMerged(
                       CasFrame(d, "OCRN_YMD", "DCSD_CNT", "INJPSN_CNT")))
             n == Cardinality(ys)
         IN  {o \in [1..n -> ys] :
                 /\ \A i, j \in 1..n : i # j => o[i] # o[j]
                 /\ \A i, j \in 1..n :
                       i < j => ToNumeric(o[i]).v <= ToNumeric(o[j]).v}

prep_casualty_stack_area(d, ymd_col, death_col, inj_col, order) ==
    \* app.py 33-36 assign into locals(), which changes no argument: the
    \* column names stay as passed
    IF \E need \in {ymd_col, death_col, inj_col} : need \notin d.columns
    THEN Raised("KeyError")                         \* app.py 37-39
    ELSE LET merged == CasMerged(CasFrame(d, ymd_col, death_col, inj_col))
         IN  [status |-> "ok",
              records |-> [i \in 1..Len(order) |->
                             [year |-> ToNumeric(order[i]).v,
                              deaths |-> merged[order[i]].deaths,
                              injuries |-> merged[order[i]].injuries]]]

InitCas ==
    /\ df \in {[columns |-> cols, rows |-> <<>>] : cols \in CasColumnSets}
    /\ args = [fn |-> "prep_casualty_stack_area"]
    /\ result = NoResult
    /\ pc = "build"
    /\ app = NoApp

AddRowCas ==
    /\ pc = "build"
    /\ args.fn = "prep_casualty_stack_area"
    /\ Len(df.rows) < MaxRowsCas
    /\ \E row \in CasRows(df.columns) :
          df' = [df EXCEPT !.rows = Append(@, row)]
    /\ UNCHANGED <<args, result, pc, app>>

CallCas ==
    /\ pc = "build"
    /\ args.fn = "prep_casualty_stack_area"
    /\ \E order \in CasOrders(df) :
          result' = prep_casualty_stack_area(df, "OCRN_YMD", "DCSD_CNT",
                                             "INJPSN_CNT", order)
    /\ args' = [fn |-> "prep_casualty_stack_area", ymd_col |-> "OCRN_YMD",
                death_col |-> "DCSD_CNT", inj_col |-> "INJPSN_CNT"]
    /\ pc' = "done"
    /\ UNCHANGED <<df, app>>

NextCas == AddRowCas \/ CallCas

SpecCas == InitCas /\ [][NextCas]_vars

(***************************************************************************)
(* Claims about prep_casualty_stack_area, checked under SpecCas.           *)
(***************************************************************************)
CasReturned == pc = "done" /\ result.status = "ok"

\* C9: whatever the death and injury cells hold (negative, missing or
\* non-numeric values included), every returned record has injuries >= 0.
C9_InjuriesNeverNegative ==
    CasReturned => \A i \in 1..Len(result.records) : result.records[i].injuries >= 0

\* the count a cell stands for: its number, 0 when missing or not numeric (no
\* text of CasDeathValues or CasInjuryValues is numeric)
CasCount(cell) == IF cell.kind = "num" THEN cell.v ELSE 0

\* a returned record of a year whose injury cells add up to less than zero
C9_Witness ==
    /\ CasReturned
    /\ \E i \in 1..Len(result.records) :
          /\ result.records[i].year = 2018
          /\ result.records[i].injuries = 0
          /\ \E j \in 1..Len(df.rows) :
                /\ df.rows[j].OCRN_YMD = <<"2", "0", "1", "8", "0", "1", "1", "5">>
                /\ df.rows[j].INJPSN_CNT = NumCell(-3)
          /\ \A j \in 1..Len(df.rows) : df.rows[j].INJPSN_CNT # NumCell(17)

\* the rows of one year: those whose date starts with the year text y
CasRowsOfYear(y) ==
    {j \in 1..Len(df.rows) : Slice(AsTypeStr(df.rows[j].OCRN_YMD), 0, 4) = y}
CasSum(rowset, column) ==
    SumSeq([j \in 1..Len(df.rows) |->
              IF j \in rowset THEN CasCount(df.rows[j][column]) ELSE 0])
\* what C10 expects of the record of the year text y
CasExpected(y) ==
    LET deaths == CasSum(CasRowsOfYear(y), "DCSD_CNT")
        both == deaths + CasSum(CasRowsOfYear(y), "INJPSN_CNT")
    IN  [year |-> DecVal(y), deaths |-> deaths,
         injuries |-> IF both - deaths > 0 THEN both - deaths ELSE 0]
CasYearTexts ==
    {y \in {Slice(AsTypeStr(df.rows[j].OCRN_YMD), 0, 4) : j \in 1..Len(df.rows)} :
        y # <<>> /\ \A k \in 1..Len(y) : y[k] \in Digits}

CasRowYears ==
    {ToNumeric(y).v : y \in CasYearTexts}

\* C11: the result holds exactly one record per distinct numeric year of the
\* input: the years of the records are pairwise distinct and strictly
\* ascending, a row whose leading four date characters are not numeric gives
\* no record, and deaths and injuries are integers >= 0.
C11_OneRecordPerNumericYear ==
    CasReturned =>
       /\ Len(result.records) = Cardinality(CasRowYears)
       /\ {result.records[i].year : i \in 1..Len(result.records)} = CasRowYears
       /\ \A i, j \in 1..Len(result.records) :
             i < j => result.records[i].year < result.records[j].year
       /\ \A i \in 1..Len(result.records) :
             /\ result.records[i].deaths \in Nat
             /\ result.records[i].injuries \in Nat

\* the table with its three columns under the exact names
CasExactNames(d) ==
    IF d.columns # {"ocrn_ymd", "dcsd_cnt", "injpsn_cnt"} THEN d
    ELSE [columns |-> {"OCRN_YMD", "DCSD_CNT", "INJPSN_CNT"},
          rows |-> [i \in 1..Len(d.rows) |->
                      [OCRN_YMD |-> d.rows[i].ocrn_ymd, DCSD_CNT |-> d.rows[i].dcsd_cnt,
                       INJPSN_CNT |-> d.rows[i].injpsn_cnt]]]

\* C17: on a table whose date, death and injury columns differ from ymd_col,
\* death_col and inj_col only in letter case the call does not raise, and
\* returns the records it returns for the same table with the exact names.
C17_MixedCaseColumnsResolved ==
    (pc = "done" /\ df.columns = {"ocrn_ymd", "dcsd_cnt", "injpsn_cnt"}) =>
       /\ result.status = "ok"
       /\ \E order \in CasOrders(CasExactNames(df)) :
             result = prep_casualty_stack_area(CasExactNames(df), args.ymd_col,
                                               args.death_col, args.inj_col, order)

(***************************************************************************)
(* prep_region_year_counts (app.py 157-237)                                *)
(***************************************************************************)
MaxRowsRegion == 2

\* str.strip() and str.lower() on the column names of the model
NameStrip ==
    ("year" :> "year") @@ (" YEAR " :> "YEAR") @@ ("yEaR" :> "yEaR") @@
    ("GRNDS_SGG_NM" :> "GRNDS_SGG_NM") @@ (" GRNDS_SGG_NM" :> "GRNDS_SGG_NM") @@
    ("grnds_sgg_nm" :> "grnds_sgg_nm")
NameLower ==
    ("year" :> "year") @@ ("YEAR" :> "year") @@ ("yEaR" :> "year") @@
    ("GRNDS_SGG_NM" :> "grnds_sgg_nm") @@ ("grnds_sgg_nm" :> "grnds_sgg_nm")

\* app.py 159: the candidate names, in order ("yeondo" stands for "연도")
YearColCandidates == <<"year", "YEAR", "Year", "yeondo">>

\* the schemas: the year column under a candidate name, padded with blanks,
\* in another letter case; the year or the region column absent; the region
\* column in lower case
RegionColumnSets ==
    { {"year", "GRNDS_SGG_NM"},
      {" YEAR ", " GRNDS_SGG_NM"},
      {"yEaR", "GRNDS_SGG_NM"},
      {"GRNDS_SGG_NM"},
      {"year"},
      {"year", "grnds_sgg_nm"} }

\* year cells: two numbers, a numeric text, a text that is no number
RegionYearValues ==
    {NumCell(2016), NumCell(2018), TextCell(<<"2", "0", "1", "7">>), TextCell(<<"x">>)}
\* region cells: two names, a name padded with blanks, a blank, a missing cell
RegionValues == {"gangneung", " gangneung ", "sokcho", " ", NA}

RegionRows(cols) ==
    {[c \in cols |-> IF NameLower[NameStrip[c]] = "year" THEN y ELSE g] :
        y \in RegionYearValues, g \in RegionValues}

\* app.py 218: astype(str).str.strip() on a region cell
RegionStrip ==
    ("gangneung" :> "gangneung") @@ (" gangneung " :> "gangneung") @@
    ("sokcho" :> "sokcho") @@ (" " :> "") @@ (NA :> "nan")
\* the order sorted group keys come in
RegionRank ==
    ("" :> 0) @@ (" " :> 1) @@ (" gangneung " :> 2) @@ ("gangneung" :> 3) @@
    ("nan" :> 4) @@ ("sokcho" :> 5)

\* year_range: None or (ymin, ymax)
NoRange == [none |-> TRUE, ymin |-> 0, ymax |-> 0]
YearRange(ymin, ymax) == [none |-> FALSE, ymin |-> ymin, ymax |-> ymax]
YearRangeValues == {NoRange, YearRange(2016, 2017), YearRange(2017, 2017)}

\* app.py 192: the table with its column names stripped
StripColumns(d) ==
    [columns |-> {NameStrip[c] : c \in d.columns},
     rows |-> [i \in 1..Len(d.rows) |->
                 [n \in {NameStrip[c] : c \in d.columns} |->
                    d.rows[i][CHOOSE c \in d.columns : NameStrip[c] = n]]]]

\* app.py 195-206: the first candidate that is a column, else a column that
\* is "year" in another letter case, else none
FindYearCol(columns) ==
    LET hits == {i \in 1..Len(YearColCandidates) : YearColCandidates[i] \in columns}
    IN  IF hits # {}
        THEN [none |-> FALSE,
              c |-> YearColCandidates[CHOOSE i \in hits : \A j \in hits : i <= j]]
        ELSE IF \E c \in columns : NameLower[c] = "year"
        THEN [none |-> FALSE, c |-> CHOOSE c \in columns : NameLower[c] = "year"]
        ELSE [none |-> TRUE, c |-> ""]

\* app.py 211-224: the rows left after the year is made a number, blank
\* regions are removed (when drop_na_region) and the year range is applied
RegionFrame(d, year_col, region_col, year_range, drop_na_region) ==
    LET parsed == [i \in 1..Len(d.rows) |->
                     [year |-> CellToNumeric(d.rows[i][year_col]),
                      region |-> IF drop_na_region
                                 THEN RegionStrip[d.rows[i][region_col]]
                                 ELSE d.rows[i][region_col]]]
        numeric == SelectSeq(parsed, LAMBDA r : ~r.year.nan)
        named == IF drop_na_region
                 THEN SelectSeq(numeric, LAMBDA r : r.region # "" /\ r.region # "nan")
                 ELSE numeric
        ranged == IF year_range.none THEN named
                  ELSE SelectSeq(named, LAMBDA r : /\ r.year.v >= year_range.ymin
                                                   /\ r.year.v <= year_range.ymax)
    IN  [i \in 1..Len(ranged) |-> [year |-> ranged[i].year.v, region |-> ranged[i].region]]

\* group keys in ascending (year, region) order
RECURSIVE SortPairs(_)
SortPairs(S) ==
    IF S = {} THEN <<>>
    ELSE LET m == CHOOSE x \in S : \A y \in S :
                     \/ x[1] < y[1]
                     \/ x[1] = y[1] /\ RegionRank[x[2]] <= RegionRank[y[2]]
         IN  <<m>> \o SortPairs(S \ {m})

\* app.py 227-232: groupby([year, region]).size(); a group key that is missing
\* (NaN) forms no group
RegionCounts(frame) ==
    LET keys == SortPairs({<<r.year, r.region>> : r \in {x \in Range(frame) : x.region # NA}})
    IN  [i \in 1..Len(keys) |->
            [year |-> keys[i][1], region |-> keys[i][2],
             count |-> CountRows(frame, LAMBDA r : r.year = keys[i][1] /\ r.region = keys[i][2])]]

\* the routine without its column check: a table without the year or the
\* region column gives no records
RegionCountsUnchecked(df0, region_col, year_range, drop_na_region) ==
    LET d == StripColumns(df0)
        year_col == FindYearCol(d.columns)
    IN  [status |-> "ok",
         counts |-> IF year_col.none \/ region_col \notin d.columns THEN <<>>
                    ELSE RegionCounts(RegionFrame(d, year_col.c, region_col,
                                                  year_range, drop_na_region))]

prep_region_year_counts(df0, region_col, year_range, drop_na_region) ==
    LET d == StripColumns(df0)
        year_col == FindYearCol(d.columns)
    IN  IF year_col.none \/ region_col \notin d.columns
        THEN Raised("ValueError")                   \* app.py 208-209
        ELSE [status |-> "ok",
              counts |-> RegionCounts(RegionFrame(d, year_col.c, region_col,
                                                  year_range, drop_na_region))]

InitRegion ==
    /\ df \in {[columns |-> cols, rows |-> <<>>] : cols \in RegionColumnSets}
    /\ args = [fn |-> "prep_region_year_counts"]
    /\ result = NoResult
    /\ pc = "build"
    /\ app = NoApp

AddRowRegion ==
    /\ pc = "build"
    /\ args.fn = "prep_region_year_counts"
    /\ Len(df.rows) < MaxRowsRegion
    /\ \E row \in RegionRows(df.columns) :
          df' = [df EXCEPT !.rows = Append(@, row)]
    /\ UNCHANGED <<args, result, pc, app>>

CallRegion ==
    /\ pc = "build"
    /\ args.fn = "prep_region_year_counts"
    /\ \E year_range \in YearRangeValues, drop_na_region \in BOOLEAN :
          /\ args' = [fn |-> "prep_region_year_counts", region_col |-> "GRNDS_SGG_NM",
                      year_range |-> year_range, drop_na_region |-> drop_na_region]
          /\ result' = prep_region_year_counts(df, "GRNDS_SGG_NM", year_range,
                                               drop_na_region)
    /\ pc' = "done"
    /\ UNCHANGED <<df, app>>

NextRegion == AddRowRegion \/ CallRegion

SpecRegion == InitRegion /\ [][NextRegion]_vars

(***************************************************************************)
(* Claims about prep_region_year_counts, checked under SpecRegion.         *)
(***************************************************************************)
RegionReturned == pc = "done" /\ result.status = "ok"

\* the year and the region cell of row i, whatever the columns are called
RegionYearCell(i) ==
    df.rows[i][CHOOSE c \in df.columns : NameLower[NameStrip[c]] = "year"]
RegionCell(i) ==
    df.rows[i][CHOOSE c \in df.columns : NameLower[NameStrip[c]] = "grnds_sgg_nm"]
RegionYearNumber(i) ==
    LET c == RegionYearCell(i)
    IN  IF c.kind = "num" THEN Num(c.v)
        ELSE IF c.kind = "text" /\ c.s # <<>> /\ \A k \in 1..Len(c.s) : c.s[k] \in Digits
        THEN Num(DecVal(c.s))
        ELSE NumNaN
\* the region of a pair: trimmed when drop_na_region, else as it stands
RegionOf(i) ==
    IF args.drop_na_region THEN RegionStrip[RegionCell(i)] ELSE RegionCell(i)
\* a row is retained iff its year is numeric, its region is not blank after
\* trimming (when drop_na_region) and its year lies in the inclusive range
RegionRetained(i) ==
    /\ ~RegionYearNumber(i).nan
    /\ args.drop_na_region => RegionStrip[RegionCell(i)] \notin {"", "nan"}
    /\ ~args.year_range.none =>
          /\ args.year_range.ymin <= RegionYearNumber(i).v
          /\ RegionYearNumber(i).v <= args.year_range.ymax
RegionPairs ==
    {<<RegionYearNumber(i).v, RegionOf(i)>> :
        i \in {j \in 1..Len(df.rows) : RegionRetained(j)}}

\* C13: the result has one record per (year, region) pair of a retained row and
\* none for another pair: the pairs of the records are pairwise distinct,
\* every count is >= 1 and is the number of retained rows with that pair.
C13_OneRecordPerObservedPair ==
    RegionReturned =>
       /\ {<<result.counts[i].year, result.counts[i].region>> :
              i \in 1..Len(result.counts)} = RegionPairs
       /\ Len(result.counts) = Cardinality(RegionPairs)
       /\ \A i \in 1..Len(result.counts) :
             /\ result.counts[i].count >= 1
             /\ result.counts[i].count =
                   Cardinality({j \in 1..Len(df.rows) :
                      /\ RegionRetained(j)
                      /\ RegionYearNumber(j).v = result.counts[i].year
                      /\ RegionOf(j) = result.counts[i].region})

(***************************************************************************)
(* The five aggregation routines together: a table is built for one of     *)
(* them and the routine is called on it.                                   *)
(***************************************************************************)
InitAggregations ==
    InitHourly \/ InitMonth \/ InitMob \/ InitMobSpelling \/ InitCas \/ InitRegion

MaxRowsAggregations == 1

\* one more row for the table, whichever routine it is built for
AddRowAggregations ==
    /\ Len(df.rows) < MaxRowsAggregations
    /\ (AddRowHourly \/ AddRowMonth \/ AddRowMob \/ AddRowCas \/ AddRowRegion)

NextAggregations ==
    AddRowAggregations \/ CallHourly \/ CallMonth \/ CallMob \/ CallCas \/ CallRegion

SpecAggregations == InitAggregations /\ [][NextAggregations]_vars

\* a column name of any table of the model, stripped and in lower case
ColumnKey ==
    LowerTable @@
    [c \in DOMAIN NameStrip |-> NameLower[NameStrip[c]]] @@
    ("DCSD_CNT" :> "dcsd_cnt") @@ ("dcsd_cnt" :> "dcsd_cnt") @@
    ("INJPSN_CNT" :> "injpsn_cnt") @@ ("injpsn_cnt" :> "injpsn_cnt") @@
    ("FIRE_OCRN_HR" :> "fire_ocrn_hr") @@ ("OCRN_HR" :> "ocrn_hr") @@
    ("IGTN_HTSRC_LCLSF_NM" :> "igtn_htsrc_lclsf_nm")

\* the columns a call requires, by the arguments it was made with
RequiredColumns ==
    IF args.fn = "prep_hourly_cause" THEN {args.hour_col, args.cause_col}
    ELSE IF args.fn = "prep_mobilization_records" THEN {args.date_col, args.total_col}
    ELSE IF args.fn = "prep_casualty_stack_area"
    THEN {args.ymd_col, args.death_col, args.inj_col}
    ELSE IF args.fn = "prep_region_year_counts" THEN {"year", args.region_col}
    ELSE {"OCRN_YMD"}

\* a required column is entirely absent: no column of the table has its name,
\* in whatever letter case
RequiredColumnAbsent ==
    \E need \in RequiredColumns :
       \A c \in df.columns : ColumnKey[c] # ColumnKey[need]

\* C14: prep_hourly_cause, prep_mobilization_records, prep_casualty_stack_area
\* and prep_region_year_counts raise an error and return no result when a
\* column they require is entirely absent from the table.
C14_MissingColumnRaises ==
    (/\ pc = "done"
     /\ args.fn \in {"prep_hourly_cause", "prep_mobilization_records",
                     "prep_casualty_stack_area", "prep_region_year_counts"}
     /\ RequiredColumnAbsent)
       => result.status \in {"KeyError", "ValueError"}

\* a call of prep_region_year_counts on a table with rows and no region column
C14_Witness ==
    /\ pc = "done"
    /\ args.fn = "prep_region_year_counts"
    /\ df.columns = {"year"}
    /\ Len(df.rows) >= 1
    /\ result.status = "ValueError"

\* every required column is in the table under its own name
RequiredColumnsExist == RequiredColumns \subseteq df.columns

\* C15: when all required columns exist, none of the five routines raises
\* because of what the rows hold: with malformed dates, non-numeric counts,
\* blank categories, every row malformed or no row at all, the call returns.
C15_RowContentsNeverRaise ==
    (pc = "done" /\ RequiredColumnsExist) => result.status = "ok"

(***************************************************************************)
(* The page script's loading overlay (app.py 283-288, 681-685).  Streamlit *)
(* runs the script from the top on every interaction of a session; the     *)
(* session state outlives the runs, the script's variables do not.  A run  *)
(* ends early when a statement raises or when a rerun is requested.        *)
(***************************************************************************)
MaxRuns == 8

\* st.session_state of a fresh session: no key
EmptySessionState == [k \in {} |-> FALSE]

\* app.py 287: not st.session_state["boot_done"], but on every run
BootingAlways(session_state) == TRUE

\* app.py 287: not st.session_state["boot_done"]
Booting(session_state) == ~session_state["boot_done"]

InitScript ==
    /\ df = [columns |-> {}, rows |-> <<>>]
    /\ args = [fn |-> "app.py"]
    /\ result = NoResult
    /\ pc = "idle"
    /\ app = [script |-> "app.py",
              session_state |-> EmptySessionState,
              overlay |-> "None",        \* the script variable overlay
              loader |-> FALSE,          \* the overlay element is on the page
              boot_at_start |-> FALSE,   \* boot_done as the run found it
              runs |-> 0]

\* an interaction (or the first page load) starts a run
StartRun ==
    /\ pc = "idle"
    /\ app.runs < MaxRuns
    /\ pc' = "l283"
    /\ app' = [app EXCEPT
                 !.runs = @ + 1,
                 !.overlay = "None",
                 !.boot_at_start = /\ "boot_done" \in DOMAIN app.session_state
                                   /\ app.session_state["boot_done"]]
    /\ UNCHANGED <<df, args, result>>

\* app.py 283-284
InitBootDone ==
    /\ pc = "l283"
    /\ app' = IF "boot_done" \notin DOMAIN app.session_state
              THEN [app EXCEPT !.session_state = ("boot_done" :> FALSE) @@ @]
              ELSE app
    /\ pc' = "l286"
    /\ UNCHANGED <<df, args, result>>

\* app.py 286-288
ShowOverlay ==
    /\ pc = "l286"
    /\ app' = IF Booting(app.session_state)
              THEN [app EXCEPT !.overlay = "ph", !.loader = TRUE]
              ELSE [app EXCEPT !.overlay = "None"]
    /\ pc' = "l290"
    /\ UNCHANGED <<df, args, result>>

\* app.py 290-680: the data is read and the page is rendered
RenderPage ==
    /\ pc = "l290"
    /\ pc' = "l682"
    /\ UNCHANGED <<df, args, result, app>>

\* app.py 682-683
SleepAndTest ==
    /\ pc = "l682"
    /\ pc' = IF app.overlay # "None" THEN "l684" ELSE "idle"
    /\ UNCHANGED <<df, args, result, app>>

\* app.py 684
EmptyOverlay ==
    /\ pc = "l684"
    /\ app' = [app EXCEPT !.loader = FALSE]
    /\ pc' = "l685"
    /\ UNCHANGED <<df, args, result>>

\* app.py 685
SetBootDone ==
    /\ pc = "l685"
    /\ app' = [app EXCEPT !.session_state = ("boot_done" :> TRUE) @@ @]
    /\ pc' = "idle"
    /\ UNCHANGED <<df, args, result>>

\* a statement raises, or a rerun is requested: the run ends where it stands
AbortRun ==
    /\ pc \notin {"idle"}
    /\ pc' = "idle"
    /\ UNCHANGED <<df, args, result, app>>

NextScript ==
    \/ StartRun \/ InitBootDone \/ ShowOverlay \/ RenderPage
    \/ SleepAndTest \/ EmptyOverlay \/ SetBootDone \/ AbortRun

SpecScript == InitScript /\ [][NextScript]_vars

(***************************************************************************)
(* Claims about the loading overlay, checked under SpecScript.             *)
(***************************************************************************)
BootDone ==
    "boot_done" \in DOMAIN app.session_state /\ app.session_state["boot_done"]
OverlayDecided == pc \in {"l290", "l682", "l684", "l685"}

\* C18: over any sequence of runs of one session, aborted runs included:
\* boot_done is not true at session start; a run shows the overlay iff
\* boot_done was not true when the run started; boot_done becomes true only
\* by the last statement of a run that showed the overlay, after the overlay
\* was cleared; once true it stays true, and no run shows the overlay then.
C18_OverlayOnlyUntilBootDone ==
    /\ [](app.runs = 0 => ~BootDone)
    /\ [](OverlayDecided => (app.overlay # "None" <=> ~app.boot_at_start))
    /\ [][(~BootDone /\ BootDone') =>
             /\ pc = "l685" /\ pc' = "idle"
             /\ app.overlay # "None"
             /\ ~app.loader]_vars
    /\ [][BootDone => (BootDone' /\ app'.overlay = "None" /\ ~app'.loader)]_vars

\* a third run of the session that found boot_done true and went past the
\* overlay test without showing the overlay
C18_Witness ==
    /\ app.runs = 3
    /\ pc = "l682"
    /\ app.boot_at_start
    /\ app.overlay = "None"
    /\ ~app.loader

(***************************************************************************)
(* prep_month_season_chart of the second page (test.py 60-78)              *)
(***************************************************************************)
MaxRowsChart == 3

\* startmonth cells: January, June, December, and 0 (a month counted from 0)
ChartMonthValues == {0, 1, 6, 12}
ChartYearValues == {2016, 2017}
ChartColumnSets == {{"startyear", "startmonth"}, {"startmonth"}, {"startyear"}}
ChartRows(cols) ==
    IF cols = {"startyear", "startmonth"}
    THEN [startyear : ChartYearValues, startmonth : ChartMonthValues]
    ELSE IF cols = {"startmonth"} THEN [startmonth : ChartMonthValues]
    ELSE [startyear : ChartYearValues]

\* test.py 64: the ranges the year slider can hand back
ChartSliderRanges(d) ==
    IF "startyear" \notin d.columns \/ d.rows = <<>> THEN {<<0, 0>>}
    ELSE LET years == {r.startyear : r \in Range(d.rows)}
         IN  {<<y1, y2>> \in (SetMin(years)..SetMax(years)) \X (SetMin(years)..SetMax(years)) :
                 y1 <= y2}

\* test.py 68-70: months 1..12 become 0..11 when both 1 and 12 occur
ChartMonths(months) ==
    IF months # <<>>
       /\ SetMin(Range(months)) = 1 /\ SetMax(Range(months)) = 12
    THEN [i \in 1..Len(months) |-> months[i] - 1]
    ELSE months

\* test.py 72-77: value_counts().reindex(range(12), fill_value=0)
ChartMonthCounts(sm) ==
    LET vc == [m \in Range(sm) |-> CountRows(sm, LAMBDA x : x = m)]
    IN  [i \in 1..12 |-> [month0 |-> i - 1, month |-> i, count |-> Reindex(vc, i - 1, 0)]]

\* test.py 65: the rows inside the slider's range
ChartFiltered(d, slider) ==
    IF "startyear" \in d.columns
    THEN SelectSeq(d.rows, LAMBDA r : r.startyear >= slider[1] /\ r.startyear <= slider[2])
    ELSE d.rows

test_prep_month_season_chart(d, slider) ==
    IF "startyear" \in d.columns /\ d.rows = <<>>
    THEN Raised("ValueError")                      \* test.py 63: int(nan)
    ELSE IF "startmonth" \notin d.columns
    THEN Raised("KeyError")                        \* test.py 68
    ELSE LET rows == ChartFiltered(d, slider)
             sm == ChartMonths([i \in 1..Len(rows) |-> rows[i].startmonth])
         IN  [status |-> "ok", months_df |-> ChartMonthCounts(sm)]

InitChart ==
    /\ df \in {[columns |-> cols, rows |-> <<>>] : cols \in ChartColumnSets}
    /\ args = [fn |-> "test.prep_month_season_chart"]
    /\ result = NoResult
    /\ pc = "build"
    /\ app = NoApp

AddRowChart ==
    /\ pc = "build"
    /\ args.fn = "test.prep_month_season_chart"
    /\ Len(df.rows) < MaxRowsChart
    /\ \E row \in ChartRows(df.columns) :
          df' = [df EXCEPT !.rows = Append(@, row)]
    /\ UNCHANGED <<args, result, pc, app>>

CallChart ==
    /\ pc = "build"
    /\ args.fn = "test.prep_month_season_chart"
    /\ \E slider \in ChartSliderRanges(df) :
          /\ args' = [fn |-> "test.prep_month_season_chart", slider |-> slider]
          /\ result' = test_prep_month_season_chart(df, slider)
    /\ pc' = "done"
    /\ UNCHANGED <<df, app>>

NextChart == AddRowChart \/ CallChart

SpecChart == InitChart /\ [][NextChart]_vars

(***************************************************************************)
(* Claims about test.py's prep_month_season_chart, checked under SpecChart.*)
(***************************************************************************)
ChartReturned == pc = "done" /\ result.status = "ok"
\* the rows the year filter leaves
ChartRowsInRange ==
    {i \in 1..Len(df.rows) :
        "startyear" \in df.columns =>
           /\ df.rows[i].startyear >= args.slider[1]
           /\ df.rows[i].startyear <= args.slider[2]}

\* C19: when every startmonth lies in 1..12, the count reported for calendar
\* month m (1..12) is the number of rows, after the year filter, with
\* startmonth = m; also when the data has no January or no December row.
C19_CountsByCalendarMonth ==
    (/\ ChartReturned
     /\ \A i \in 1..Len(df.rows) : df.rows[i].startmonth \in 1..12)
       => \A k \in 1..12 :
             result.months_df[k].count =
                Cardinality({i \in ChartRowsInRange :
                                df.rows[i].startmonth = result.months_df[k].month})

(***************************************************************************)
(* The monthly roll-up of the second page's script (test.py 166-210).      *)
(* Lower-casing the column names, parsing the date and dropping rows, and  *)
(* the grouped sums are the statements of prep_mobilization_records and    *)
(* are computed by the same operators.                                     *)
(***************************************************************************)
MaxRowsRollup == 2

\* test.py 184-190
RollupLineCols ==
    <<"mblz_policeo_cnt", "mblz_sold_cnt", "mblz_gnrl_ocpt_nope",
      "etc_mblz_nope", "mblz_ffpwr_cnt">>

\* st.stop(): the script run ends, no records are built
Stopped == [status |-> "stopped"]

\* test.py 195: (year, month) keys in ascending order
SortYearMonth(S) ==
    LET codes == SortInts({k[1] * 100 + k[2] : k \in S})
    IN  [i \in 1..Len(codes) |-> <<codes[i] \div 100, codes[i] % 100>>]

monthly_rollup(df0) ==
    LET d == LowerColumns(df0)                       \* test.py 167
    IN  IF ~({"ocrn_ymd", "whol_mnpw_cnt"} \subseteq d.columns)
        THEN Stopped                                 \* test.py 169-172
        ELSE
        LET frame == MobFrame(d, "ocrn_ymd", "whol_mnpw_cnt")   \* test.py 174-182
        IN  IF frame = <<>>
            THEN Stopped                             \* test.py 177-179
            ELSE
            LET use_cols == {c \in Range(RollupLineCols) : c \in d.columns}
                \* test.py 193-203
                merged == MobGroupSum(frame, {"whol_mnpw_cnt"} \cup use_cols)
                \* test.py 198-207: the line columns are created only when
                \* not one of them is in the source
                merged_columns ==
                    {"year", "month", "whol_mnpw_cnt"} \cup
                    (IF use_cols # {} THEN use_cols ELSE Range(RollupLineCols))
                out_cols == {"year", "month", "whol_mnpw_cnt"} \cup Range(RollupLineCols)
                keys == SortYearMonth(DOMAIN merged)
                value(k, c) ==
                    IF c = "year" THEN k[1]
                    ELSE IF c = "month" THEN k[2]
                    ELSE IF c \in DOMAIN merged[k] THEN merged[k][c]
                    ELSE 0
            IN  IF ~(out_cols \subseteq merged_columns)
                THEN Raised("KeyError")              \* test.py 209
                ELSE [status |-> "ok",
                      records |-> [i \in 1..Len(keys) |->
                                     [c \in out_cols |-> value(keys[i], c)]]]

InitRollup ==
    /\ df \in {[columns |-> cols, rows |-> <<>>] : cols \in MobColumnSets}
    /\ args = [fn |-> "test.py roll-up"]
    /\ result = NoResult
    /\ pc = "build"
    /\ app = NoApp

AddRowRollup ==
    /\ pc = "build"
    /\ args.fn = "test.py roll-up"
    /\ Len(df.rows) < MaxRowsRollup
    /\ \E row \in MobRows(df.columns) :
          df' = [df EXCEPT !.rows = Append(@, row)]
    /\ UNCHANGED <<args, result, pc, app>>

CallRollup ==
    /\ pc = "build"
    /\ args.fn = "test.py roll-up"
    /\ result' = monthly_rollup(df)
    /\ pc' = "done"
    /\ UNCHANGED <<df, args, app>>

NextRollup == AddRowRollup \/ CallRollup

SpecRollup == InitRollup /\ [][NextRollup]_vars

(***************************************************************************)
(* Claims about the monthly roll-up, checked under SpecRollup.             *)
(***************************************************************************)
\* C20: whenever ocrn_ymd and whol_mnpw_cnt are present and at least one row
\* is valid, the records are built for every subset of the five role columns
\* in the source (none, some or all), and every record has year, month,
\* whol_mnpw_cnt and all five role keys, with 0 for the absent ones.
C20_RollupForEveryRoleSubset ==
    (/\ pc = "done"
     /\ MobRequiredPresent
     /\ \E i \in 1..Len(df.rows) : MobRetained(i))
       => /\ result.status = "ok"
          /\ \A i \in 1..Len(result.records) :
                /\ DOMAIN result.records[i] = {"year", "month"} \cup MobMetricKeys
                /\ \A n \in RoleNames : ~MobHas(n) => result.records[i][n] = 0

(***************************************************************************)
(* The chart script of the second page (test.py 238-447).  One panel per   *)
(* year; every panel has its bars, lines and dots layers, its draw and     *)
(* reset functions and its _drawn flag.  The script is single-threaded:    *)
(* every callback runs from its first to its last statement before the     *)
(* next one starts.                                                        *)
(***************************************************************************)
MaxPanels == 2
MaxEntries == 2

\* test.py 249: lineCols, in the order of labelMap's keys
ChartLineCols ==
    <<"mblz_policeo_cnt", "mblz_sold_cnt", "mblz_gnrl_ocpt_nope",
      "etc_mblz_nope", "mblz_ffpwr_cnt">>

\* test.py 264-272: the data of a panel, as far as draw reads it: the number
\* of its months and the line columns whose sum is not 0
PanelData ==
    { [rows |-> 1, nonzero |-> {}],
      [rows |-> 2, nonzero |-> {"mblz_sold_cnt"}],
      [rows |-> 12, nonzero |-> Range(ChartLineCols)] }

\* test.py 274-301: a new panel: empty layers, _drawn not set
NewPanel(data) ==
    [data |-> data,
     bars |-> 0,              \* rect elements of the bars layer
     lines |-> <<>>,          \* path elements of the lines layer, by column
     dots |-> {},             \* columns with circle elements in the dots layer
     drawn |-> "undefined",   \* node._drawn
     drew_on_empty |-> TRUE]  \* every draw so far found the three layers empty

\* test.py 347-349: the columns draw makes a path for, in order
DrawnCols(data) == SelectSeq(ChartLineCols, LAMBDA c : c \in data.nonzero)

\* test.py 324-394
draw(node) ==
    [node EXCEPT
        !.bars = node.data.rows,                     \* join("rect")
        !.lines = @ \o DrawnCols(node.data),         \* linesG.append("path")
        !.dots = @ \cup node.data.nonzero,           \* join("circle") per column
        !.drawn = "true",
        !.drew_on_empty = @ /\ node.bars = 0 /\ node.lines = <<>> /\ node.dots = {}]

\* test.py 396-402
reset(node) ==
    [node EXCEPT !.bars = 0, !.lines = <<>>, !.dots = {}, !.drawn = "false"]

\* the test of test.py 419 without "!node._drawn"
ShouldDrawAnyway(node, ratio) == ratio >= 25

\* test.py 419: ratio >= 0.25 && !node._drawn (ratio in percent)
ShouldDraw(node, ratio) == ratio >= 25 /\ node.drawn # "true"

\* test.py 414-423: one entry of an IntersectionObserver callback
OnEntry(node, ratio) ==
    LET after == IF ShouldDraw(node, ratio) THEN draw(node) ELSE node
    IN  IF ratio = 0 /\ after.drawn = "true" THEN reset(after) ELSE after

\* test.py 413-424: the entries of one callback, handled in order
RECURSIVE OnEntries(_, _)
OnEntries(panels, entries) ==
    IF entries = <<>> THEN panels
    ELSE LET e == Head(entries)
         IN  OnEntries([panels EXCEPT ![e.target] = OnEntry(@, e.ratio)],
                       Tail(entries))

\* intersection ratios in percent: out of view, below and at the threshold,
\* fully in view
RatioValues == {0, 10, 25, 100}

InitPanels ==
    /\ df = [columns |-> {}, rows |-> <<>>]
    /\ args = [fn |-> "test.py chart script"]
    /\ result = NoResult
    /\ pc = "loaded"
    /\ \E n \in 1..MaxPanels :
          \E data \in [1..n -> PanelData] :
             app = [script |-> "test.py chart script",
                    panels |-> [p \in 1..n |-> NewPanel(data[p])],
                    rafId |-> FALSE]

\* test.py 413-424: an IntersectionObserver callback
ObserverCallback ==
    /\ app.script = "test.py chart script"
    /\ \E k \in 1..MaxEntries :
          \E entries \in [1..k -> [target : DOMAIN app.panels, ratio : RatioValues]] :
             app' = [app EXCEPT !.panels = OnEntries(@, entries)]
    /\ UNCHANGED <<df, args, result, pc>>

\* test.py 404: a click on a panel's Replay button
ReplayClick ==
    /\ app.script = "test.py chart script"
    /\ \E p \in DOMAIN app.panels :
          app' = [app EXCEPT !.panels[p] = draw(reset(@))]
    /\ UNCHANGED <<df, args, result, pc>>

\* test.py 433-435, 445-446: a scroll or resize event asks for a frame, unless
\* one is already asked for
OnScrollCheck ==
    /\ app.script = "test.py chart script"
    /\ ~app.rafId
    /\ app' = [app EXCEPT !.rafId = TRUE]
    /\ UNCHANGED <<df, args, result, pc>>

\* test.py 435-443: the frame callback; out is the set of panels wholly
\* outside the viewport
FrameCallback ==
    /\ app.script = "test.py chart script"
    /\ app.rafId
    /\ \E out \in SUBSET DOMAIN app.panels :
          app' = [app EXCEPT
                    !.panels = [p \in DOMAIN app.panels |->
                                  IF p \in out /\ app.panels[p].drawn = "true"
                                  THEN reset(app.panels[p]) ELSE app.panels[p]],
                    !.rafId = FALSE]
    /\ UNCHANGED <<df, args, result, pc>>

NextPanels == ObserverCallback \/ ReplayClick \/ OnScrollCheck \/ FrameCallback

SpecPanels == InitPanels /\ [][NextPanels]_vars

(***************************************************************************)
(* Claims about the chart script, checked under SpecPanels.                *)
(***************************************************************************)
PathsOf(node, col) == Cardinality({i \in 1..Len(node.lines) : node.lines[i] = col})
LayersEmpty(node) == node.bars = 0 /\ node.lines = <<>> /\ node.dots = {}
LayersDrawn(node) ==
    /\ node.bars = node.data.rows
    /\ node.lines = SelectSeq(ChartLineCols, LAMBDA c : c \in node.data.nonzero)
    /\ node.dots = node.data.nonzero

\* C21: for any interleaving of observer callbacks, scroll and resize checks
\* and Replay clicks: draw has only run on a panel whose bars, lines and dots
\* layers were empty; _drawn is true exactly when the layers hold the drawn
\* elements, and the layers are empty otherwise; no panel holds more than one
\* line path per metric column.
C21_DrawOnlyOnEmptyLayers ==
    app.script = "test.py chart script" =>
       \A p \in DOMAIN app.panels :
          LET node == app.panels[p]
          IN  /\ node.drew_on_empty
              /\ node.drawn = "true" <=> LayersDrawn(node)
              /\ node.drawn # "true" => LayersEmpty(node)
              /\ \A col \in Range(ChartLineCols) : PathsOf(node, col) <= 1

\* a panel with all five lines drawn next to a panel that was drawn and reset,
\* with a frame asked for
C21_Witness ==
    /\ app.script = "test.py chart script"
    /\ Len(app.panels) = 2
    /\ app.panels[1].drawn = "true" /\ Len(app.panels[1].lines) = 5
    /\ app.panels[2].drawn = "false"
    /\ app.rafId

====
